---- MODULE Spec2Model ----
(***************************************************************************)
(* The two-party payment channel of ch4nn337-lib (Channel in lib.rs),     *)
(* driven the way ch4nn337-cli drives it (execute in main.rs): Request,   *)
(* Withdraw, Receive (receive_message, then the y/N decision and           *)
(* sign_message), Cancel and Status, one command at a time per instance.  *)
(*                                                                         *)
(* u128 and i128 are scaled down to Width bits; every cast and every      *)
(* arithmetic operation keeps the wrapping or panicking behaviour the     *)
(* Rust build gives it: each call is given oc, TRUE for a build with       *)
(* overflow checks (debug, a panic) and FALSE for one without (release,   *)
(* a wrap).                                                                *)
(***************************************************************************)
EXTENDS Integers, Sequences, FiniteSets, TLC

VARIABLES
    chan,             \* Party -> Channel (lib.rs:90-101), the two persisted instances
    chain,            \* what the network client reads: code and balances of the account
    request,          \* Party -> the Message held by a Receive command (main.rs:154)
    broadcasts,       \* number of operations send_user_operation accepted
    ret               \* the library call that has just returned: its name, instance,
                      \* input and result; NoCall once the driver has used the result

vars == <<chan, chain, request, broadcasts, ret>>

----------------------------------------------------------------------------
(* Bounds of the model *)

Width == 3          \* bits of the scaled-down u128 / i128
MaxBal == 1         \* largest balance the chain reports
MaxWei == 2         \* largest amount the user passes to request_transfer
MaxMsgs == 2        \* longest committed history explored

(* Protocol constants, lib.rs:22-27 *)
CALL_GAS_LIMIT_DISPUTE == 200000
CALL_GAS_LIMIT_COOP == 200000
VERIFICATION_GAS_LIMIT == 1500000
PRE_VERIFICATION_GAS == 200000
MAX_FEE_PER_GAS == 100000000
PRIORITY_FEE == 100000000

None == [none |-> TRUE]

Party == {"A", "B"}
Other(p) == IF p = "A" THEN "B" ELSE "A"

----------------------------------------------------------------------------
(* Fixed-width integers *)

UMod == 2 ^ Width
IMax == 2 ^ (Width - 1) - 1
IMin == 0 - 2 ^ (Width - 1)
URange == 0 .. (UMod - 1)
IRange == IMin .. IMax

\* `x as i128` on a u128, and the wrap of an i128 result
AsI(x) == LET m == x % UMod IN IF m > IMax THEN m - UMod ELSE m
\* `x as u128` on an i128, and the wrap of a u128 result
AsU(x) == x % UMod

\* i128 arithmetic: a debug build panics on overflow, a release build wraps
ISub(x, y, oc) ==
    IF (x - y) \in IRange THEN [panic |-> FALSE, val |-> x - y]
    ELSE IF oc THEN [panic |-> TRUE, val |-> 0]
    ELSE [panic |-> FALSE, val |-> AsI(x - y)]

IAdd(x, y, oc) ==
    IF (x + y) \in IRange THEN [panic |-> FALSE, val |-> x + y]
    ELSE IF oc THEN [panic |-> TRUE, val |-> 0]
    ELSE [panic |-> FALSE, val |-> AsI(x + y)]

\* u128 addition, same rule
UAdd(x, y, oc) ==
    IF (x + y) \in URange THEN [panic |-> FALSE, val |-> x + y]
    ELSE IF oc THEN [panic |-> TRUE, val |-> 0]
    ELSE [panic |-> FALSE, val |-> AsU(x + y)]

----------------------------------------------------------------------------
(* Identity: keys, addresses, init code *)

CHAIN_ID == 5
KeyOf(p) == IF p = "A" THEN "key_a" ELSE "key_b"

\* Wallet::from(key).address()
WalletAddress(key) ==
    CASE key = "key_a" -> "address_a"
      [] key = "key_b" -> "address_b"
      [] OTHER -> "address_x"

\* mutant: both instances are given address_b as the counterparty
Open_counterparty_b(p) ==
    [chain_id |-> CHAIN_ID,
     entry_point |-> "entry_point",
     factory |-> "factory",
     address |-> "channel",
     us |-> p,
     key |-> KeyOf(p),
     counterparty |-> WalletAddress(KeyOf("B")),
     salt |-> "salt",
     messages |-> <<>>,
     pending_message |-> None]

\* Channel::open: the two instances it returns
Open(p) ==
    [chain_id |-> CHAIN_ID,
     entry_point |-> "entry_point",
     factory |-> "factory",
     address |-> "channel",
     us |-> p,
     key |-> KeyOf(p),
     counterparty |-> WalletAddress(KeyOf(Other(p))),
     salt |-> "salt",
     messages |-> <<>>,
     pending_message |-> None]

our_address(c) == WalletAddress(c.key)

\* mutant: the own address comes first whatever the role
parties_us_first(c) == <<our_address(c), c.counterparty>>

parties(c) ==
    IF c.us = "A" THEN <<our_address(c), c.counterparty>>
    ELSE <<c.counterparty, our_address(c)>>

init_code(c) ==
    [factory |-> c.factory,
     party_a |-> parties(c)[1],
     party_b |-> parties(c)[2],
     salt |-> c.salt]

----------------------------------------------------------------------------
(* Operations (UserOp) and their signatures *)

\* UserOp::get_user_op_hash(entry_point, chain_id): everything but the signature
UserOpHash(userop, entry_point, chain_id) ==
    <<userop.sender, userop.nonce, userop.init_code, userop.call_data,
      userop.call_gas_limit, userop.verification_gas_limit,
      userop.pre_verificaiton_gas, userop.max_fee_per_gas,
      userop.max_priority_fee_per_gas, userop.paymaster_and_data,
      entry_point, chain_id>>

\* a 65-byte ECDSA signature: who made it and over which hash
Sig(key, hash) == [kind |-> "ecdsa", key |-> key, over |-> hash]

\* Channel::sign
sign(c, userop) == Sig(c.key, UserOpHash(userop, c.entry_point, c.chain_id))

\* Signature::try_from(bytes) then recover(hash): the signer's address when the
\* signature is over this hash, some unrelated address when it is over another,
\* and a failure when the bytes are not a 65-byte signature
Recover(signature, hash) ==
    IF signature.kind # "ecdsa" THEN [ok |-> FALSE, address |-> "none"]
    ELSE IF signature.over = hash
         THEN [ok |-> TRUE, address |-> WalletAddress(signature.key)]
         ELSE [ok |-> TRUE, address |-> "address_x"]

DisputeCall(value_transfer) ==
    [call |-> "dispute", value_transfer |-> value_transfer,
     withdraw_a |-> 0, withdraw_b |-> 0]

CoopWithdrawCall(value_transfer, withdraw_a, withdraw_b) ==
    [call |-> "coopWithdraw", value_transfer |-> value_transfer,
     withdraw_a |-> withdraw_a, withdraw_b |-> withdraw_b]

EmptyBytes == [kind |-> "empty"]

TransferMessage(userop, value_transfer) ==
    [type |-> "Transfer", userop |-> userop, value_transfer |-> value_transfer,
     withdraw_us |-> 0, withdraw_them |-> 0]

WithdrawalMessage(userop, withdraw_us, withdraw_them) ==
    [type |-> "Withdrawal", userop |-> userop, value_transfer |-> 0,
     withdraw_us |-> withdraw_us, withdraw_them |-> withdraw_them]

----------------------------------------------------------------------------
(* History accessors *)

Last(s) == s[Len(s)]

\* mutant: the value of the latest Transfer of the history, Withdrawals skipped
get_value_transfer_latest_transfer(c) ==
    LET transfers == {i \in 1 .. Len(c.messages) : c.messages[i].type = "Transfer"}
    IN  IF transfers = {} THEN 0
        ELSE c.messages[CHOOSE i \in transfers : \A j \in transfers : j <= i]
               .value_transfer

get_value_transfer(c) ==
    IF c.messages = <<>> THEN 0
    ELSE IF Last(c.messages).type = "Transfer" THEN Last(c.messages).value_transfer
    ELSE 0

last_nonce(c) ==
    IF c.messages = <<>> THEN 0 ELSE Last(c.messages).userop.nonce

\* mutant: the nonce after the last one is not stepped
next_outgoing_nonce_same(c) == last_nonce(c)

next_outgoing_nonce(c) ==
    IF c.messages # <<>> THEN last_nonce(c) + 1 ELSE 0

\* mutant: the nonce of the last committed message is expected again
next_incoming_nonce_last(c) == last_nonce(c)

next_incoming_nonce(c) == next_outgoing_nonce(c)

----------------------------------------------------------------------------
(* The chain as the network client shows it *)

ChainStates ==
    {[deployed |-> FALSE, balance_a |-> 0, balance_b |-> 0, native |-> n] :
        n \in 0 .. MaxBal}
    \cup
    {[deployed |-> TRUE, balance_a |-> a, balance_b |-> b, native |-> a + b] :
        a \in 0 .. MaxBal, b \in 0 .. MaxBal}

Ok(out) == [tag |-> "Ok", err |-> "", out |-> out]
Err(e) == [tag |-> "Err", err |-> e, out |-> None]
Panic == [tag |-> "Panic", err |-> "", out |-> None]

\* Channel::is_deployed
is_deployed(ch, net) ==
    IF net = "get_code" THEN Err("MiddlewareError") ELSE Ok(ch.deployed)

\* the two balances get_balances starts from (lib.rs:200-211)
base_balances(ch, net) ==
    LET dep == is_deployed(ch, net) IN
    IF dep.tag # "Ok" THEN dep
    ELSE IF dep.out
         THEN IF net = "balance" THEN Err("ContractError")
              ELSE Ok(<<ch.balance_a % UMod, ch.balance_b % UMod>>)
         ELSE IF net = "balance" THEN Err("MiddlewareError")
              ELSE Ok(<<ch.native % UMod, 0>>)

\* Channel::get_balances
get_balances(c, ch, net, oc) ==
    LET base == base_balances(ch, net) IN
    IF base.tag # "Ok" THEN base
    ELSE
      LET value_transfer == get_value_transfer(c)
          da == ISub(AsI(base.out[1]), value_transfer, oc)
          db == ISub(AsI(base.out[2]), value_transfer, oc)
          sb == UAdd(base.out[2], AsU(db.val), oc)
      IN  IF da.panic \/ db.panic \/ sb.panic THEN Panic
          ELSE Ok(<<AsU(da.val), sb.val>>)

\* Channel::get_sorted_balances
get_sorted_balances(c, ch, net, oc) ==
    LET r == get_balances(c, ch, net, oc) IN
    IF r.tag # "Ok" THEN r
    ELSE IF c.us = "A" THEN r ELSE Ok(<<r.out[2], r.out[1]>>)

----------------------------------------------------------------------------
(* Operation Builder: request_transfer and request_full_withdraw *)

\* the UserOp literal of lib.rs:317-333 and 354-372, before it is signed
UserOp(c, call_data, call_gas_limit) ==
    [sender |-> c.address,
     nonce |-> next_outgoing_nonce(c),
     init_code |-> init_code(c),
     call_data |-> call_data,
     call_gas_limit |-> call_gas_limit,
     verification_gas_limit |-> VERIFICATION_GAS_LIMIT,
     pre_verificaiton_gas |-> PRE_VERIFICATION_GAS,
     max_fee_per_gas |-> MAX_FEE_PER_GAS,
     max_priority_fee_per_gas |-> PRIORITY_FEE,
     paymaster_and_data |-> EmptyBytes,
     signature |-> EmptyBytes]

Signed(c, userop) == [userop EXCEPT !.signature = sign(c, userop)]

\* the result of a call that may change the instance: the returned value and the
\* instance afterwards
Res(r, c) == [tag |-> r.tag, err |-> r.err, out |-> r.out, chan |-> c]

\* mutant: the amount is added whatever the role
propose_transfer_add(c, wei, ch, net, oc) ==
    LET bal == get_sorted_balances(c, ch, net, oc) IN
    IF bal.tag # "Ok" THEN Res(bal, c)
    ELSE IF bal.out[2] < wei THEN Res(Err("InsufficientBalance"), c)
    ELSE IF wei > IMax THEN Res(Panic, c)
    ELSE
      LET next == IAdd(get_value_transfer(c), wei, oc) IN
      IF next.panic THEN Res(Panic, c)
      ELSE
        LET userop == Signed(c, UserOp(c, DisputeCall(next.val),
                                       CALL_GAS_LIMIT_DISPUTE))
        IN  Res(Ok(userop),
                [c EXCEPT !.pending_message = TransferMessage(userop, next.val)])

\* Channel::request_transfer past its first check (lib.rs:306-342)
propose_transfer(c, wei, ch, net, oc) ==
    LET bal == get_sorted_balances(c, ch, net, oc) IN
    IF bal.tag # "Ok" THEN Res(bal, c)
    ELSE IF bal.out[2] < wei THEN Res(Err("InsufficientBalance"), c)
    ELSE IF wei > IMax THEN Res(Panic, c)   \* i128::try_from(wei).unwrap()
    ELSE
      LET current == get_value_transfer(c)
          next == IF c.us = "A" THEN ISub(current, wei, oc)
                  ELSE IAdd(current, wei, oc)
      IN  IF next.panic THEN Res(Panic, c)
          ELSE
            LET userop == Signed(c, UserOp(c, DisputeCall(next.val),
                                           CALL_GAS_LIMIT_DISPUTE))
            IN  Res(Ok(userop),
                    [c EXCEPT !.pending_message =
                                  TransferMessage(userop, next.val)])

\* mutant: the pending message is not looked at
request_transfer_unguarded(c, wei, ch, net, oc) ==
    propose_transfer(c, wei, ch, net, oc)

\* Channel::request_transfer
request_transfer(c, wei, ch, net, oc) ==
    IF c.pending_message # None THEN Res(Err("AlreadyWaiting"), c)
    ELSE propose_transfer(c, wei, ch, net, oc)

\* mutant: withdraw_us and withdraw_them are not ordered by the role
request_full_withdraw_unordered(c, ch, net, oc) ==
    IF c.pending_message # None THEN Res(Err("AlreadyWaiting"), c)
    ELSE
      LET bal == get_balances(c, ch, net, oc) IN
      IF bal.tag # "Ok" THEN Res(bal, c)
      ELSE
        LET userop == Signed(c, UserOp(c,
                          CoopWithdrawCall(get_value_transfer(c),
                                           bal.out[1], bal.out[2]),
                          CALL_GAS_LIMIT_COOP))
        IN  Res(Ok(userop),
                [c EXCEPT !.pending_message =
                              WithdrawalMessage(userop, bal.out[1], bal.out[2])])

\* Channel::request_full_withdraw
request_full_withdraw(c, ch, net, oc) ==
    IF c.pending_message # None THEN Res(Err("AlreadyWaiting"), c)
    ELSE
      LET bal == get_balances(c, ch, net, oc) IN
      IF bal.tag # "Ok" THEN Res(bal, c)
      ELSE
        LET withdraw_a == bal.out[1]
            withdraw_b == bal.out[2]
            userop == Signed(c, UserOp(c,
                          CoopWithdrawCall(get_value_transfer(c), withdraw_a, withdraw_b),
                          CALL_GAS_LIMIT_COOP))
        IN  IF c.us = "A"
            THEN Res(Ok(userop),
                     [c EXCEPT !.pending_message =
                                   WithdrawalMessage(userop, withdraw_a, withdraw_b)])
            ELSE Res(Ok(userop),
                     [c EXCEPT !.pending_message =
                                   WithdrawalMessage(userop, withdraw_b, withdraw_a)])

----------------------------------------------------------------------------
(* Validation Engine: receive_message *)

\* the signature check of receive_message (lib.rs:422-435)
signature_ok(c, userop) ==
    LET rec == Recover(userop.signature,
                       UserOpHash(userop, c.entry_point, c.chain_id))
    IN  rec.ok /\ rec.address = c.counterparty

\* the constants check of receive_message (lib.rs:413-420)
constants_ok(userop) ==
    ~ \/ userop.paymaster_and_data # EmptyBytes
      \/ userop.max_priority_fee_per_gas # PRIORITY_FEE
      \/ userop.max_fee_per_gas # MAX_FEE_PER_GAS
      \/ userop.pre_verificaiton_gas # PRE_VERIFICATION_GAS
      \/ userop.verification_gas_limit # VERIFICATION_GAS_LIMIT

\* mutant: the signature is checked after the sender, before the nonce
check_header_signature_early(c, userop) ==
    IF c.address # userop.sender THEN "IllegalSender"
    ELSE IF ~signature_ok(c, userop) THEN "IllegalSignature"
    ELSE IF next_incoming_nonce(c) # userop.nonce THEN "IllegalNonce"
    ELSE IF userop.init_code # init_code(c) THEN "IllegalInitcode"
    ELSE IF ~constants_ok(userop) THEN "IllegalConstant"
    ELSE ""

\* the checks of receive_message that come before the payload is decoded
\* (lib.rs:401-435): the error of the first that fails, "" when all pass
check_header(c, userop) ==
    IF c.address # userop.sender THEN "IllegalSender"
    ELSE IF next_incoming_nonce(c) # userop.nonce THEN "IllegalNonce"
    ELSE IF userop.init_code # init_code(c) THEN "IllegalInitcode"
    ELSE IF ~constants_ok(userop) THEN "IllegalConstant"
    ELSE IF ~signature_ok(c, userop) THEN "IllegalSignature"
    ELSE ""

\* mutant: the net-transfer value of a withdrawal is checked before its gas limit
receive_message_value_first(c, userop, ch, net, oc) ==
    IF check_header(c, userop) # "" THEN Err(check_header(c, userop))
    ELSE
      IF userop.call_data.call = "coopWithdraw" THEN
        IF userop.call_data.value_transfer # get_value_transfer(c)
        THEN Err("IllegalValueTransfer")
        ELSE IF userop.call_gas_limit # CALL_GAS_LIMIT_COOP
             THEN Err("IllegalConstant")
        ELSE
          LET bal == get_balances(c, ch, net, oc) IN
          IF bal.tag # "Ok" THEN bal
          ELSE IF \/ userop.call_data.withdraw_a > bal.out[1]
                  \/ userop.call_data.withdraw_b > bal.out[2]
               THEN Err("InsufficientBalance")
          ELSE IF c.us = "A"
               THEN Ok(WithdrawalMessage(userop, userop.call_data.withdraw_a,
                                         userop.call_data.withdraw_b))
               ELSE Ok(WithdrawalMessage(userop, userop.call_data.withdraw_b,
                                         userop.call_data.withdraw_a))
      ELSE IF userop.call_data.call = "dispute" THEN
        IF userop.call_gas_limit # CALL_GAS_LIMIT_DISPUTE THEN Err("IllegalConstant")
        ELSE Ok(TransferMessage(userop, userop.call_data.value_transfer))
      ELSE Err("IllegalCalldata")

\* Channel::receive_message; it takes &self, so it returns no new instance
receive_message(c, userop, ch, net, oc) ==
    IF check_header(c, userop) # "" THEN Err(check_header(c, userop))
    ELSE
      IF userop.call_data.call = "coopWithdraw" THEN
        IF userop.call_gas_limit # CALL_GAS_LIMIT_COOP THEN Err("IllegalConstant")
        ELSE IF userop.call_data.value_transfer # get_value_transfer(c)
             THEN Err("IllegalValueTransfer")
        ELSE
          LET bal == get_balances(c, ch, net, oc) IN
          IF bal.tag # "Ok" THEN bal
          ELSE IF \/ userop.call_data.withdraw_a > bal.out[1]
                  \/ userop.call_data.withdraw_b > bal.out[2]
               THEN Err("InsufficientBalance")
          ELSE IF c.us = "A"
               THEN Ok(WithdrawalMessage(userop, userop.call_data.withdraw_a,
                                         userop.call_data.withdraw_b))
               ELSE Ok(WithdrawalMessage(userop, userop.call_data.withdraw_b,
                                         userop.call_data.withdraw_a))
      ELSE IF userop.call_data.call = "dispute" THEN
        IF userop.call_gas_limit # CALL_GAS_LIMIT_DISPUTE THEN Err("IllegalConstant")
        ELSE Ok(TransferMessage(userop, userop.call_data.value_transfer))
      ELSE Err("IllegalCalldata")   \* undecodable, or another call of the contract

----------------------------------------------------------------------------
(* Co-signature Aggregator: sign_message, and cancel_pending_message *)

\* abi::encode(&[first, second]) of lib.rs:494-503
SigPair(first, second) == [kind |-> "pair", first |-> first, second |-> second]

\* mutant: the signer's signature always comes first
new_sig_signer_first(c, signature, existing) == SigPair(signature, existing)

\* the combined signature of sign_message (lib.rs:494-503)
new_sig(c, signature, existing) ==
    IF c.us = "A" THEN SigPair(signature, existing)
    ELSE SigPair(existing, signature)

\* mutant: every message is submitted
is_withdrawal_any(message) == TRUE

\* matches!(message, Message::Withdrawal(_)) (lib.rs:508)
is_withdrawal(message) == message.type = "Withdrawal"

\* mutant: the message is pushed before the operation is submitted
sign_message_push_first(c, message, net) ==
    LET signature == sign(c, message.userop)
        userop == [message.userop EXCEPT
                     !.signature = new_sig(c, signature, message.userop.signature)]
        signed == [message EXCEPT !.userop = userop]
        pushed == [c EXCEPT !.messages = Append(c.messages, signed)]
    IN  IF is_withdrawal(message) /\ net = "send"
        THEN [tag |-> "Err", err |-> "MiddlewareError", out |-> None,
              chan |-> pushed, sent |-> FALSE]
        ELSE [tag |-> "Ok", err |-> "", out |-> userop,
              chan |-> pushed, sent |-> is_withdrawal(message)]

\* Channel::sign_message; `sent` tells whether send_user_operation accepted the
\* operation
sign_message(c, message, net) ==
    LET signature == sign(c, message.userop)
        userop == [message.userop EXCEPT
                     !.signature = new_sig(c, signature, message.userop.signature)]
        signed == [message EXCEPT !.userop = userop]
    IN  IF is_withdrawal(message) /\ net = "send"
        THEN [tag |-> "Err", err |-> "MiddlewareError", out |-> None,
              chan |-> c, sent |-> FALSE]
        ELSE [tag |-> "Ok", err |-> "", out |-> userop,
              chan |-> [c EXCEPT !.messages = Append(c.messages, signed)],
              sent |-> is_withdrawal(message)]

\* mutant: is_some() without take()
cancel_pending_message_keeps(c) == Res(Ok(c.pending_message # None), c)

\* Channel::cancel_pending_message
cancel_pending_message(c) ==
    Res(Ok(c.pending_message # None), [c EXCEPT !.pending_message = None])

----------------------------------------------------------------------------
(* The commands of the driver (main.rs:78-181), one action per library call *)

\* how the outside answers a call: which network call fails, if any, and the
\* build. Every network call of an operation comes before its arithmetic, so the
\* build only shows when the network answers.
Answers ==
    {[net |-> "ok", oc |-> FALSE], [net |-> "ok", oc |-> TRUE],
     [net |-> "get_code", oc |-> FALSE], [net |-> "balance", oc |-> FALSE]}

Call(op, p, arg, r) ==
    [op |-> op, party |-> p, arg |-> arg,
     tag |-> r.tag, err |-> r.err, out |-> r.out]

NoCall == Call("none", "A", None, Ok(None))

\* the instance's driver is at the command line: no call is being reported and
\* no Receive command is waiting for its answer
Idle(p) == ret.op = "none" /\ request[p] = None
\* the Receive command of the instance is asking "Sign? (y/N)" (main.rs:155-157)
Asking(p) == ret.op = "none" /\ request[p] # None

\* Commands::Request (main.rs:129-137)
RequestTransfer(p) ==
    /\ Idle(p)
    /\ \E wei \in 1 .. MaxWei, ans \in Answers :
         LET r == request_transfer(chan[p], wei, chain, ans.net, ans.oc) IN
         /\ chan' = [chan EXCEPT ![p] = r.chan]
         /\ ret' = Call("request_transfer", p, wei, r)
    /\ UNCHANGED <<chain, request, broadcasts>>

\* Commands::Withdraw (main.rs:138-146)
RequestFullWithdraw(p) ==
    /\ Idle(p)
    /\ \E ans \in Answers :
         LET r == request_full_withdraw(chan[p], chain, ans.net, ans.oc) IN
         /\ chan' = [chan EXCEPT ![p] = r.chan]
         /\ ret' = Call("request_full_withdraw", p, None, r)
    /\ UNCHANGED <<chain, request, broadcasts>>

\* mutant: the validated message is kept as the pending message
ReceiveMessage_keeps(p, inputs) ==
    /\ Idle(p)
    /\ \E in \in inputs :
         LET r == receive_message(chan[p], in.userop, chain, in.ans.net, in.ans.oc) IN
         /\ request' = [request EXCEPT ![p] = IF r.tag = "Ok" THEN r.out ELSE None]
         /\ chan' = [chan EXCEPT ![p].pending_message =
                                   IF r.tag = "Ok" THEN r.out ELSE @]
         /\ ret' = Call("receive_message", p, in.userop, r)
    /\ UNCHANGED <<chain, broadcasts>>

\* Commands::Receive, first half (main.rs:147-155): the pasted operation is
\* validated and the returned Message is held while the user is asked.
\* An input is the pasted operation, the network's answer and the build.
ReceiveMessage(p, inputs) ==
    /\ Idle(p)
    /\ \E in \in inputs :
         LET r == receive_message(chan[p], in.userop, chain, in.ans.net, in.ans.oc) IN
         /\ request' = [request EXCEPT ![p] = IF r.tag = "Ok" THEN r.out ELSE None]
         /\ ret' = Call("receive_message", p, in.userop, r)
    /\ UNCHANGED <<chan, chain, broadcasts>>

\* Commands::Receive, answer "y" (main.rs:158-161)
SignMessage(p) ==
    /\ Asking(p)
    /\ Len(chan[p].messages) < MaxMsgs
    /\ \E net \in {"ok", "send"} :
         LET r == sign_message(chan[p], request[p], net) IN
         /\ chan' = [chan EXCEPT ![p] = r.chan]
         /\ broadcasts' = IF r.sent THEN broadcasts + 1 ELSE broadcasts
         /\ ret' = Call("sign_message", p, request[p], r)
    /\ request' = [request EXCEPT ![p] = None]
    /\ UNCHANGED chain

\* Commands::Receive, any other answer (main.rs:162-164)
Abort(p) ==
    /\ Asking(p)
    /\ request' = [request EXCEPT ![p] = None]
    /\ UNCHANGED <<chan, chain, broadcasts, ret>>

\* Commands::Cancel (main.rs:167-178)
CancelPendingMessage(p) ==
    /\ Idle(p)
    /\ LET r == cancel_pending_message(chan[p]) IN
         /\ chan' = [chan EXCEPT ![p] = r.chan]
         /\ ret' = Call("cancel_pending_message", p, None, r)
    /\ UNCHANGED <<chain, request, broadcasts>>

\* Channel::get_balances, called on its own
GetBalances(p) ==
    /\ Idle(p)
    /\ \E ans \in Answers :
         ret' = Call("get_balances", p, None,
                     get_balances(chan[p], chain, ans.net, ans.oc))
    /\ UNCHANGED <<chan, chain, request, broadcasts>>

\* the driver prints what the call returned and goes on (main.rs:135, 144, 155,
\* 160, 174, 176), or stops on its error (main.rs:73-75)
Done ==
    /\ ret.op # "none"
    /\ ret' = NoCall
    /\ UNCHANGED <<chan, chain, request, broadcasts>>

\* the operations the counterparty's Request and Withdraw commands printed and
\* that are still awaiting this instance's answer
HonestOps(p) ==
    IF chan[Other(p)].pending_message = None THEN {}
    ELSE {chan[Other(p)].pending_message.userop}

\* the operations under every answer
AnyAnswer(ops) == {[userop |-> u, ans |-> ans] : u \in ops, ans \in Answers}
\* the operations with the network answering
Answered(ops) == {[userop |-> u, ans |-> [net |-> "ok", oc |-> FALSE]] : u \in ops}

----------------------------------------------------------------------------
(* What a counterparty, or anyone else, may paste into Receive (main.rs:152-153) *)

\* the fields of an operation that receive_message looks at, the signature aside
Fields ==
    {"sender", "nonce", "init_code", "paymaster_and_data",
     "max_priority_fee_per_gas", "max_fee_per_gas", "pre_verificaiton_gas",
     "verification_gas_limit", "call_data", "call_gas_limit"}

\* an operation with the fields of T set to something else
Tampered(u, T) ==
    [sender |-> IF "sender" \in T THEN "elsewhere" ELSE u.sender,
     nonce |-> IF "nonce" \in T THEN u.nonce + 1 ELSE u.nonce,
     init_code |-> IF "init_code" \in T
                   THEN [u.init_code EXCEPT !.party_a = u.init_code.party_b,
                                            !.party_b = u.init_code.party_a]
                   ELSE u.init_code,
     call_data |-> IF "call_data" \in T
                   THEN [u.call_data EXCEPT !.call = "garbage"] ELSE u.call_data,
     call_gas_limit |-> IF "call_gas_limit" \in T
                        THEN u.call_gas_limit + 1 ELSE u.call_gas_limit,
     verification_gas_limit |-> IF "verification_gas_limit" \in T
                                THEN u.verification_gas_limit + 1
                                ELSE u.verification_gas_limit,
     pre_verificaiton_gas |-> IF "pre_verificaiton_gas" \in T
                              THEN u.pre_verificaiton_gas + 1
                              ELSE u.pre_verificaiton_gas,
     max_fee_per_gas |-> IF "max_fee_per_gas" \in T
                         THEN u.max_fee_per_gas + 1 ELSE u.max_fee_per_gas,
     max_priority_fee_per_gas |-> IF "max_priority_fee_per_gas" \in T
                                  THEN u.max_priority_fee_per_gas + 1
                                  ELSE u.max_priority_fee_per_gas,
     paymaster_and_data |-> IF "paymaster_and_data" \in T
                            THEN [kind |-> "paymaster"] ELSE u.paymaster_and_data,
     signature |-> u.signature]

\* who signed the pasted operation, and how
Signers == {"counterparty", "own", "stranger", "stale", "malformed", "cosigned"}

SignedBy(c, u, how) ==
    LET hash == UserOpHash(u, c.entry_point, c.chain_id)
        peer == KeyOf(Other(c.us))
    IN  [u EXCEPT !.signature =
           CASE how = "counterparty" -> Sig(peer, hash)
             [] how = "own" -> Sig(c.key, hash)
             [] how = "stranger" -> Sig("key_x", hash)
             [] how = "stale" ->
                  Sig(peer, UserOpHash([u EXCEPT !.sender = "stale"],
                                       c.entry_point, c.chain_id))
             [] how = "malformed" -> EmptyBytes
             [] how = "cosigned" -> SigPair(Sig(peer, hash), Sig(c.key, hash))]

\* the tamperings tried: none, each field, each pair of fields of different
\* checks, and all of them
PairedFields == {"sender", "nonce", "init_code", "paymaster_and_data", "call_data"}
TamperSets ==
    {T \in SUBSET Fields :
        \/ Cardinality(T) <= 1
        \/ Cardinality(T) = 2 /\ T \subseteq PairedFields
        \/ T = Fields}

\* a well-formed transfer by 1 towards this instance, tampered with and signed:
\* every tampering under the counterparty's signature, and the tamperings of
\* paired fields, or of all fields, under every other signature
HeaderOps(c) ==
    LET v == IF c.us = "A" THEN 1 ELSE 0 - 1
        base == UserOp(c, DisputeCall(v), CALL_GAS_LIMIT_DISPUTE)
    IN  {SignedBy(c, Tampered(base, T), "counterparty") : T \in TamperSets}
        \cup
        {SignedBy(c, Tampered(base, T), how) :
            T \in {T \in TamperSets : T \subseteq PairedFields} \cup {Fields},
            how \in Signers}

\* the call payloads a counterparty may sign: transfers, calls that are neither
\* a transfer nor a withdrawal, and withdrawals
Transfers == {DisputeCall(v) : v \in {0 - 1, 0, 1}}
Unknown ==
    {[DisputeCall(0) EXCEPT !.call = "other"],
     [DisputeCall(0) EXCEPT !.call = "garbage"]}
Withdrawals(c) ==
    {CoopWithdrawCall(v, wa, wb) :
        v \in {get_value_transfer(c), get_value_transfer(c) + 1},
        wa \in 0 .. MaxBal + 1, wb \in 0 .. MaxBal + 1}

\* well-formed operations, validly signed by the counterparty, with these payloads
PayloadOps(c, payloads, gas) ==
    {SignedBy(c, UserOp(c, cd, gas), "counterparty") : cd \in payloads}

\* the operations the instance has committed, given to it again: as committed,
\* with both signatures, and as first received, with the counterparty's alone
Replays(c) ==
    {c.messages[i].userop : i \in 1 .. Len(c.messages)}
    \cup {SignedBy(c, c.messages[i].userop, "counterparty") :
             i \in 1 .. Len(c.messages)}

\* only a withdrawal makes receive_message call the network and compute balances
ForgedInputs(c) ==
    Answered(HeaderOps(c) \cup Replays(c)
             \cup PayloadOps(c, Transfers \cup Unknown, CALL_GAS_LIMIT_DISPUTE)
             \cup PayloadOps(c, Transfers \cup Withdrawals(c), CALL_GAS_LIMIT_COOP + 1))
    \cup AnyAnswer(PayloadOps(c, Withdrawals(c), CALL_GAS_LIMIT_COOP))

Init ==
    /\ chan = [p \in Party |-> Open(p)]
    /\ chain \in ChainStates
    /\ request = [p \in Party |-> None]
    /\ broadcasts = 0
    /\ ret = NoCall

Next ==
    \/ Done
    \/ \E p \in Party :
        \/ RequestTransfer(p)
        \/ RequestFullWithdraw(p)
        \/ ReceiveMessage(p, AnyAnswer(HonestOps(p)))
        \/ SignMessage(p)
        \/ Abort(p)
        \/ CancelPendingMessage(p)
        \/ GetBalances(p)

Spec == Init /\ [][Next]_vars

\* one instance against an arbitrary counterparty: the peer's own instance takes
\* no part, whatever is pasted comes from ForgedOps
Alone(p) ==
    /\ chan[Other(p)] = Open(Other(p))
    /\ request[Other(p)] = None

ReceiveForged(p) == Alone(p) /\ ReceiveMessage(p, ForgedInputs(chan[p]))
SignForged(p) == Alone(p) /\ SignMessage(p)
AbortForged(p) == Alone(p) /\ Abort(p)

NextForged ==
    \/ Done
    \/ \E p \in Party :
        \/ ReceiveForged(p)
        \/ SignForged(p)
        \/ AbortForged(p)

SpecForged == Init /\ [][NextForged]_vars

\* one instance driven through all its commands against an arbitrary
\* counterparty: what it receives comes from ForgedInputs, what it proposes is
\* answered or not as the counterparty pleases
RequestAlone(p) == Alone(p) /\ RequestTransfer(p)
WithdrawAlone(p) == Alone(p) /\ RequestFullWithdraw(p)
CancelAlone(p) == Alone(p) /\ CancelPendingMessage(p)
BalancesAlone(p) == Alone(p) /\ GetBalances(p)

NextAlone ==
    \/ Done
    \/ \E p \in Party :
        \/ RequestAlone(p)
        \/ WithdrawAlone(p)
        \/ ReceiveForged(p)
        \/ SignForged(p)
        \/ AbortForged(p)
        \/ CancelAlone(p)
        \/ BalancesAlone(p)

SpecAlone == Init /\ [][NextAlone]_vars

----------------------------------------------------------------------------
(* Claims *)

Requests == {"request_transfer", "request_full_withdraw"}

\* C1: a request made while a pending message exists returns AlreadyWaiting and
\* leaves the instance (pending_message and messages included) as it was, so a
\* request only ever fills an empty pending_message slot.
C1_AlreadyWaiting ==
    [][(ret'.op \in Requests /\ ret.op = "none"
        /\ chan[ret'.party].pending_message # None)
       => (ret'.tag = "Err" /\ ret'.err = "AlreadyWaiting" /\ chan' = chan)]_vars

\* a withdrawal was requested while a transfer was pending, and refused
C1_Witness ==
    /\ ret.op = "request_full_withdraw"
    /\ ret.err = "AlreadyWaiting"
    /\ chan[ret.party].pending_message # None
    /\ chan[ret.party].pending_message.type = "Transfer"

\* C2: receive_message returns the error of the first failing check in the order
\* sender, nonce, init code, constants, signature, payload decoding.
C2_CheckOrder ==
    ret.op = "receive_message" =>
      LET c == chan[ret.party]
          u == ret.arg
          badSender == u.sender # c.address
          badNonce == u.nonce # next_incoming_nonce(c)
          badInit == u.init_code # init_code(c)
          badConst == \/ u.paymaster_and_data # EmptyBytes
                      \/ u.max_priority_fee_per_gas # PRIORITY_FEE
                      \/ u.max_fee_per_gas # MAX_FEE_PER_GAS
                      \/ u.pre_verificaiton_gas # PRE_VERIFICATION_GAS
                      \/ u.verification_gas_limit # VERIFICATION_GAS_LIMIT
          badSig == \/ u.signature.kind # "ecdsa"
                    \/ u.signature.over # UserOpHash(u, c.entry_point, c.chain_id)
                    \/ WalletAddress(u.signature.key) # c.counterparty
          badCall == u.call_data.call \notin {"dispute", "coopWithdraw"}
      IN  ret.err =
            IF badSender THEN "IllegalSender"
            ELSE IF badNonce THEN "IllegalNonce"
            ELSE IF badInit THEN "IllegalInitcode"
            ELSE IF badConst THEN "IllegalConstant"
            ELSE IF badSig THEN "IllegalSignature"
            ELSE IF badCall THEN "IllegalCalldata"
            ELSE ret.err

\* an operation with a wrong nonce, a signature of a stranger and an undecodable
\* payload was rejected for its nonce
C2_Witness ==
    /\ ret.op = "receive_message"
    /\ ret.err = "IllegalNonce"
    /\ ret.arg.nonce # next_incoming_nonce(chan[ret.party])
    /\ ret.arg.signature.kind = "ecdsa"
    /\ ret.arg.signature.key = "key_x"
    /\ ret.arg.call_data.call = "garbage"

\* C3: receive_message leaves both instances as they were, identity fields,
\* messages and pending_message, whether it accepts or rejects.
C3_ReceiveIsPure ==
    [][ret'.op = "receive_message" /\ ret.op = "none" => chan' = chan]_vars

\* a withdrawal was accepted by an instance that has committed a message
C3_Witness ==
    /\ ret.op = "receive_message"
    /\ ret.tag = "Ok"
    /\ ret.out.type = "Withdrawal"
    /\ chan[ret.party].messages # <<>>
    /\ chan[ret.party].pending_message = None

\* C4: the committed messages of an instance carry the nonces 0, 1, 2, ... in
\* order, so next_outgoing_nonce() is the number of committed messages.
C4_NonceSequence ==
    \A p \in Party :
        /\ \A i \in 1 .. Len(chan[p].messages) :
               chan[p].messages[i].userop.nonce = i - 1
        /\ next_outgoing_nonce(chan[p]) = Len(chan[p].messages)

\* sign_message has just committed the second message of an instance
C4_Witness ==
    /\ ret.op = "sign_message"
    /\ ret.tag = "Ok"
    /\ Len(chan[ret.party].messages) = 2
    /\ ret.out.nonce = 1

\* the balances the contract holds for A and B, or (native balance, 0)
BaseA == IF chain.deployed THEN chain.balance_a ELSE chain.native
BaseB == IF chain.deployed THEN chain.balance_b ELSE 0

\* C5: get_balances returns (base_A - v, base_B + v), v the outstanding
\* net-transfer value.
C5_Balances ==
    (ret.op = "get_balances" /\ ret.tag = "Ok") =>
      LET v == get_value_transfer(chan[ret.party]) IN
      /\ ret.out[1] = BaseA - v
      /\ ret.out[2] = BaseB + v

\* C6: the two balances get_balances returns sum to the funds of the account,
\* with or without an outstanding transfer.
C6_Conservation ==
    (ret.op = "get_balances" /\ ret.tag = "Ok") =>
      ret.out[1] + ret.out[2] = BaseA + BaseB

\* the balance of the counterparty of an instance, after the adjustment by v
RecipientBalance(c) ==
    IF c.us = "A" THEN BaseB + get_value_transfer(c)
    ELSE BaseA - get_value_transfer(c)

NetworkErrors == {"MiddlewareError", "ContractError"}

\* C7: with no pending message and the network answering, request_transfer
\* fails with InsufficientBalance, changing nothing, when the amount exceeds the
\* recipient's balance, and succeeds otherwise.
C7_InsufficientBalance ==
    [][(ret'.op = "request_transfer" /\ ret.op = "none"
        /\ chan[ret'.party].pending_message = None
        /\ ret'.err \notin NetworkErrors)
       => IF ret'.arg > RecipientBalance(chan[ret'.party])
          THEN ret'.err = "InsufficientBalance" /\ chan' = chan
          ELSE ret'.tag = "Ok"]_vars

\* C8: a step broadcasts exactly when it is a sign_message of a Withdrawal whose
\* submission succeeds; a sign_message of a Transfer and every other call
\* broadcast nothing.
C8_Broadcasts ==
    [][broadcasts' = broadcasts +
         (IF ret'.op = "sign_message" /\ ret.op = "none" /\ ret'.tag = "Ok"
             /\ ret'.arg.type = "Withdrawal"
          THEN 1 ELSE 0)]_vars

\* a Withdrawal has just been signed and broadcast, the one broadcast so far,
\* while the other instance has committed a Transfer
C8_Witness ==
    /\ ret.op = "sign_message"
    /\ ret.tag = "Ok"
    /\ ret.arg.type = "Withdrawal"
    /\ broadcasts = 1
    /\ chan[Other(ret.party)].messages # <<>>
    /\ chan[Other(ret.party)].messages[1].type = "Transfer"

\* C9: the blob sign_message produces holds A's signature of the operation first
\* and B's second: the signer's in the slot of its role, the one that was on the
\* operation in the other.
C9_SignatureOrder ==
    (ret.op = "sign_message" /\ ret.tag = "Ok") =>
      LET c == chan[ret.party]
          hash == UserOpHash(ret.arg.userop, c.entry_point, c.chain_id)
          blob == ret.out.signature
      IN  /\ blob.kind = "pair"
          /\ blob.first = Sig(KeyOf("A"), hash)
          /\ blob.second = Sig(KeyOf("B"), hash)
          /\ (IF c.us = "A" THEN blob.first ELSE blob.second) = sign(c, ret.arg.userop)
          /\ (IF c.us = "A" THEN blob.second ELSE blob.first) = ret.arg.userop.signature

\* instance B has combined the signatures
C9_Witness ==
    /\ ret.op = "sign_message"
    /\ ret.tag = "Ok"
    /\ ret.party = "B"
    /\ ret.out.signature.kind = "pair"

\* C10: a successful sign_message leaves the instance Idle, with no pending
\* message, as cancel_pending_message does.
C10_Lifecycle ==
    [][(ret'.op \in {"sign_message", "cancel_pending_message"} /\ ret.op = "none"
        /\ ret'.tag = "Ok")
       => chan'[ret'.party].pending_message = None]_vars

\* C11: sign_message never commits a message to messages while the instance
\* holds a proposal of its own in pending_message.
C11_CommitExcludesProposal ==
    [][(ret'.op = "sign_message" /\ ret.op = "none" /\ ret'.tag = "Ok")
       => chan[ret'.party].pending_message = None]_vars

Calls == {"request_transfer", "request_full_withdraw", "receive_message",
          "sign_message"}
NetFailures == {"get_code", "balance"}

\* C12: a call that returns the error of a failing network call leaves messages
\* and pending_message of both instances as they were and broadcasts nothing,
\* a Withdrawal whose submission fails is not appended, and a failing network
\* call makes a request, or the signing of a Withdrawal, return that error.
C12_FailureIsNoOp ==
    /\ [][(ret'.op \in Calls /\ ret.op = "none" /\ ret'.err \in NetworkErrors)
          => (ret'.tag = "Err" /\ chan' = chan /\ broadcasts' = broadcasts)]_vars
    /\ [](\A p \in Party :
            /\ chan[p].pending_message = None =>
                 \A net \in NetFailures, oc \in BOOLEAN :
                   /\ request_transfer(chan[p], 1, chain, net, oc).err
                          \in NetworkErrors
                   /\ request_transfer(chan[p], 1, chain, net, oc).chan = chan[p]
                   /\ request_full_withdraw(chan[p], chain, net, oc).err
                          \in NetworkErrors
                   /\ request_full_withdraw(chan[p], chain, net, oc).chan = chan[p]
            /\ (request[p] # None /\ request[p].type = "Withdrawal") =>
                   /\ sign_message(chan[p], request[p], "send").err \in NetworkErrors
                   /\ sign_message(chan[p], request[p], "send").chan = chan[p])

\* the submission of a Withdrawal failed in an instance that has committed a
\* message before
C12_Witness ==
    /\ ret.op = "sign_message"
    /\ ret.err = "MiddlewareError"
    /\ ret.arg.type = "Withdrawal"
    /\ Len(chan[ret.party].messages) = 1

\* C13: cancel_pending_message returns whether a pending message existed, empties
\* pending_message, changes nothing else and broadcasts nothing; called with no
\* pending message it returns false and changes nothing; and a request made with
\* no pending message, as after a cancel, is not refused with AlreadyWaiting.
\* (Every call changes ret.op, so the steps are told by it.)
C13_Cancel ==
    [][/\ (ret'.op = "cancel_pending_message" /\ ret.op = "none") =>
            /\ ret'.tag = "Ok"
            /\ ret'.out = (chan[ret'.party].pending_message # None)
            /\ chan' = [chan EXCEPT ![ret'.party].pending_message = None]
            /\ chan'[ret'.party].messages = chan[ret'.party].messages
            /\ broadcasts' = broadcasts /\ chain' = chain
            /\ chan[ret'.party].pending_message = None =>
                 (ret'.out = FALSE /\ chan' = chan)
       /\ (ret'.op \in Requests /\ ret.op = "none"
           /\ chan[ret'.party].pending_message = None) =>
            ret'.err # "AlreadyWaiting"]_(ret.op)

\* a pending Withdrawal was cancelled in an instance that has committed a message
C13_Witness ==
    /\ ret.op = "cancel_pending_message"
    /\ ret.out = TRUE
    /\ chan[ret.party].pending_message = None
    /\ chan[ret.party].messages # <<>>

\* the fields of an instance that open sets and nothing is meant to change
Identity(c) ==
    <<c.address, c.factory, c.entry_point, c.chain_id, c.salt, c.us, c.key,
      c.counterparty>>

\* C14: the two instances start with empty messages and no pending message; in
\* every state they agree on address, factory, entry_point, chain_id and salt,
\* have the roles A and B, and each has the other's own address as its
\* counterparty; and no step changes an identity field.
C14_Identity ==
    /\ \A p \in Party : chan[p].messages = <<>> /\ chan[p].pending_message = None
    /\ [](/\ chan["A"].address = chan["B"].address
          /\ chan["A"].factory = chan["B"].factory
          /\ chan["A"].entry_point = chan["B"].entry_point
          /\ chan["A"].chain_id = chan["B"].chain_id
          /\ chan["A"].salt = chan["B"].salt
          /\ chan["A"].us = "A" /\ chan["B"].us = "B"
          /\ chan["A"].counterparty = our_address(chan["B"])
          /\ chan["B"].counterparty = our_address(chan["A"]))
    /\ [][\A p \in Party : Identity(chan'[p]) = Identity(chan[p])]_vars

\* both instances have committed and hold a proposal
C14_Witness ==
    \A p \in Party :
        chan[p].messages # <<>> /\ chan[p].pending_message # None

\* a first transfer round between proposer p and its peer is complete: the peer
\* has committed, as its only message, the Transfer that p proposed and still
\* holds
RoundDone(p) ==
    LET c == chan[p]
        d == chan[Other(p)]
    IN  /\ c.messages = <<>>
        /\ c.pending_message # None
        /\ c.pending_message.type = "Transfer"
        /\ Len(d.messages) = 1
        /\ d.messages[1].type = "Transfer"
        /\ UserOpHash(d.messages[1].userop, d.entry_point, d.chain_id)
             = UserOpHash(c.pending_message.userop, c.entry_point, c.chain_id)

\* C15: after a transfer round both instances compute the same balances from the
\* same chain view, and these are the contract's balances shifted by the value
\* of the committed Transfer.
C15_SharedBalances ==
    \A p \in Party :
        RoundDone(p) =>
          LET ours == get_balances(chan[p], chain, "ok", FALSE)
              theirs == get_balances(chan[Other(p)], chain, "ok", FALSE)
              v == chan[Other(p)].messages[1].value_transfer
          IN  /\ ours.tag = "Ok" /\ theirs.tag = "Ok"
              /\ ours.out = theirs.out
              /\ theirs.out = <<BaseA - v, BaseB + v>>

\* C16: after a transfer round, a full withdrawal proposed by the proposer of the
\* transfer is accepted by the peer's receive_message, which returns the
\* balances after the transfer as the withdrawal amounts.
C16_WithdrawAfterTransfer ==
    [][(/\ ret'.op = "receive_message" /\ ret.op = "none"
        /\ ret'.err \notin NetworkErrors /\ ret'.tag # "Panic"
        /\ Len(chan[ret'.party].messages) = 1
        /\ chan[ret'.party].messages[1].type = "Transfer"
        /\ ret'.arg.call_data.call = "coopWithdraw")
       => LET v == chan[ret'.party].messages[1].value_transfer IN
          /\ ret'.tag = "Ok"
          /\ ret'.arg.call_data.withdraw_a = BaseA - v
          /\ ret'.arg.call_data.withdraw_b = BaseB + v]_vars

\* C17: for a cooperative withdrawal that passes the sender, nonce, init-code,
\* constant and signature checks, receive_message returns IllegalConstant when
\* the call gas limit is not CALL_GAS_LIMIT_COOP, else IllegalValueTransfer when
\* the embedded value is not the outstanding one, else (the network answering)
\* InsufficientBalance when withdraw_a or withdraw_b exceeds the balance computed
\* for A or B, else a Withdrawal with the amounts ordered by the role.
C17_WithdrawalChecks ==
    (/\ ret.op = "receive_message"
     /\ check_header(chan[ret.party], ret.arg) = ""
     /\ ret.arg.call_data.call = "coopWithdraw")
    => LET c == chan[ret.party]
           cd == ret.arg.call_data
           bal == get_balances(c, chain, "ok", FALSE)
       IN  IF ret.arg.call_gas_limit # CALL_GAS_LIMIT_COOP
           THEN ret.err = "IllegalConstant"
           ELSE IF cd.value_transfer # get_value_transfer(c)
           THEN ret.err = "IllegalValueTransfer"
           ELSE IF ret.err \in NetworkErrors \/ ret.tag = "Panic" THEN TRUE
           ELSE IF cd.withdraw_a > bal.out[1] \/ cd.withdraw_b > bal.out[2]
           THEN ret.err = "InsufficientBalance"
           ELSE /\ ret.tag = "Ok"
                /\ ret.out.type = "Withdrawal"
                /\ ret.out.userop = ret.arg
                /\ ret.out.withdraw_us =
                      (IF c.us = "A" THEN cd.withdraw_a ELSE cd.withdraw_b)
                /\ ret.out.withdraw_them =
                      (IF c.us = "A" THEN cd.withdraw_b ELSE cd.withdraw_a)

\* instance B accepted a withdrawal of different amounts for the two parties,
\* after it had committed a transfer
C17_Witness ==
    /\ ret.op = "receive_message"
    /\ ret.tag = "Ok"
    /\ ret.party = "B"
    /\ ret.out.type = "Withdrawal"
    /\ ret.out.withdraw_us # ret.out.withdraw_them
    /\ chan["B"].messages # <<>>

NextNonce(c) ==
    IF c.messages = <<>> THEN 0 ELSE Last(c.messages).userop.nonce + 1

\* C19: a successful request_transfer(amount) sets pending_message to a Transfer
\* of the outstanding value minus amount for party A and plus amount for party
\* B, in an operation of the next outgoing nonce sent by the channel address,
\* which it returns; messages stays as it was.
C19_RequestTransfer ==
    [][(ret'.op = "request_transfer" /\ ret.op = "none" /\ ret'.tag = "Ok")
       => LET c == chan[ret'.party]
              m == chan'[ret'.party].pending_message
              v == IF c.us = "A" THEN get_value_transfer(c) - ret'.arg
                   ELSE get_value_transfer(c) + ret'.arg
          IN  /\ m # None
              /\ m.type = "Transfer"
              /\ m.value_transfer = v
              /\ m.userop.call_data.call = "dispute"
              /\ m.userop.call_data.value_transfer = v
              /\ m.userop.nonce = NextNonce(c)
              /\ m.userop.sender = c.address
              /\ m.userop = ret'.out
              /\ chan'[ret'.party].messages = c.messages
              /\ chan'[Other(ret'.party)] = chan[Other(ret'.party)]]_vars

\* instance A proposed a transfer on top of a committed one
C19_Witness ==
    /\ ret.op = "request_transfer"
    /\ ret.tag = "Ok"
    /\ ret.party = "A"
    /\ get_value_transfer(chan["A"]) # 0
    /\ ret.out.nonce = 1

\* C20: a successful request_full_withdraw sets pending_message to a Withdrawal
\* whose payload carries the two balances get_balances returns as withdraw_a and
\* withdraw_b and the outstanding value, in an operation of the next outgoing
\* nonce; withdraw_us and withdraw_them are the two amounts, own first; messages
\* stays as it was.
C20_RequestFullWithdraw ==
    [][(ret'.op = "request_full_withdraw" /\ ret.op = "none" /\ ret'.tag = "Ok")
       => LET c == chan[ret'.party]
              m == chan'[ret'.party].pending_message
              bal == get_balances(c, chain, "ok", FALSE)
          IN  /\ m # None
              /\ m.type = "Withdrawal"
              /\ m.userop.call_data.call = "coopWithdraw"
              /\ m.userop.call_data.withdraw_a = bal.out[1]
              /\ m.userop.call_data.withdraw_b = bal.out[2]
              /\ m.userop.call_data.value_transfer = get_value_transfer(c)
              /\ m.userop.nonce = NextNonce(c)
              /\ m.withdraw_us = (IF c.us = "A" THEN bal.out[1] ELSE bal.out[2])
              /\ m.withdraw_them = (IF c.us = "A" THEN bal.out[2] ELSE bal.out[1])
              /\ m.userop = ret'.out
              /\ chan'[ret'.party].messages = c.messages]_vars

\* instance B proposed a withdrawal of different amounts for the two parties,
\* on top of a committed transfer
C20_Witness ==
    /\ ret.op = "request_full_withdraw"
    /\ ret.tag = "Ok"
    /\ ret.party = "B"
    /\ chan["B"].messages # <<>>
    /\ chan["B"].pending_message.withdraw_us # chan["B"].pending_message.withdraw_them

\* the value_transfer of the last committed message when it is a Transfer, 0 on
\* an empty history or after a Withdrawal
LastValue(c) ==
    IF Len(c.messages) = 0 THEN 0
    ELSE IF c.messages[Len(c.messages)].type = "Transfer"
         THEN c.messages[Len(c.messages)].value_transfer
         ELSE 0

\* C21: the outstanding value that get_balances applies, that receive_message
\* compares a withdrawal's embedded value with, and that request_full_withdraw
\* embeds, is the value_transfer of the last committed message when that is a
\* Transfer and 0 otherwise; earlier messages and the pending message play no
\* part. (The two balances are taken as get_balances computes them, in 2^Width
\* arithmetic.)
C21_OutstandingValue ==
    LET c == chan[ret.party] IN
    /\ (ret.op = "get_balances" /\ ret.tag = "Ok") =>
          /\ ret.out[1] = (BaseA - LastValue(c)) % UMod
          /\ ret.out[2] = (BaseB + BaseB - LastValue(c)) % UMod
    /\ (/\ ret.op = "receive_message"
        /\ check_header(c, ret.arg) = ""
        /\ ret.arg.call_data.call = "coopWithdraw"
        /\ ret.arg.call_gas_limit = CALL_GAS_LIMIT_COOP) =>
          (ret.err = "IllegalValueTransfer"
             <=> ret.arg.call_data.value_transfer # LastValue(c))
    /\ (ret.op = "request_full_withdraw" /\ ret.tag = "Ok") =>
          ret.out.call_data.value_transfer = LastValue(c)

\* get_balances was called on an instance that has committed a Transfer of a
\* value other than 0 and then a Withdrawal, and holds a proposed Transfer
C21_Witness ==
    /\ ret.op = "get_balances"
    /\ ret.tag = "Ok"
    /\ Len(chan[ret.party].messages) = 2
    /\ chan[ret.party].messages[1].type = "Transfer"
    /\ chan[ret.party].messages[1].value_transfer # 0
    /\ chan[ret.party].messages[2].type = "Withdrawal"
    /\ chan[ret.party].pending_message # None
    /\ chan[ret.party].pending_message.type = "Transfer"
    /\ chan[ret.party].pending_message.value_transfer # 0

\* a net-transfer value that leaves neither party with a negative balance
Covered(v) == BaseA - v >= 0 /\ BaseB + v >= 0

\* C22: receive_message accepts no Transfer whose net-transfer value would leave
\* a party with a negative balance, so no instance ever commits one.
C22_TransferCovered ==
    /\ (ret.op = "receive_message" /\ ret.tag = "Ok" /\ ret.out.type = "Transfer")
          => Covered(ret.out.value_transfer)
    /\ \A p \in Party : \A i \in 1 .. Len(chan[p].messages) :
          chan[p].messages[i].type = "Transfer"
            => Covered(chan[p].messages[i].value_transfer)

\* C23: get_balances returns no wrapped-around value: each balance it computes
\* is at most the funds the channel account holds.
C23_NoWrap ==
    (ret.op = "get_balances" /\ ret.tag = "Ok") =>
      /\ ret.out[1] <= BaseA + BaseB
      /\ ret.out[2] <= BaseA + BaseB

\* the operations an instance has committed, in order
Committed(c) == [i \in 1 .. Len(c.messages) |-> c.messages[i].userop]

\* the two instances hold the same committed history
InSync == Committed(chan["A"]) = Committed(chan["B"])

\* C24: when the two instances hold the same committed history, the operation a
\* successful request of one instance returned on that history passes every
\* check of receive_message on the other, the network answering, and the
\* returned Message carries the proposer's net-transfer value or withdrawal
\* amounts.
C24_InSyncAccepts ==
    [][(/\ ret'.op = "receive_message" /\ ret.op = "none"
        /\ InSync
        /\ chan[Other(ret'.party)].pending_message # None
        /\ ret'.arg = chan[Other(ret'.party)].pending_message.userop
        /\ ret'.arg.nonce = Len(chan[Other(ret'.party)].messages)
        /\ ret'.err \notin NetworkErrors)
       => LET m == chan[Other(ret'.party)].pending_message IN
          /\ ret'.tag = "Ok"
          /\ ret'.out.userop = ret'.arg
          /\ ret'.out.type = m.type
          /\ ret'.out.value_transfer = m.value_transfer
          /\ ret'.out.withdraw_us = m.withdraw_them
          /\ ret'.out.withdraw_them = m.withdraw_us]_vars

\* a Transfer proposed on a shared history of one message was accepted
C24_Witness ==
    /\ ret.op = "receive_message"
    /\ ret.tag = "Ok"
    /\ ret.out.type = "Transfer"
    /\ InSync
    /\ Len(chan[ret.party].messages) = 1
    /\ ret.arg.nonce = 1

====
